---- MODULE Spec2Model ----
(***************************************************************************)
(* Scheduling engine of the Smart Meeting Assistant                        *)
(* (smart-meeting-assistant-MCP/src/scheduler.py) together with the part   *)
(* of the meeting repository it reads (src/database.py).                   *)
(*                                                                         *)
(* Time is a number of minutes counted from Monday 00:00 of the first week *)
(* of the model: day d, hour h, minute m is d*1440 + h*60 + m.  All        *)
(* timestamps of the program are naive datetimes in one reference zone, so *)
(* this is the whole of their arithmetic.                                  *)
(***************************************************************************)
EXTENDS Integers, Sequences, FiniteSets, TLC

VARIABLES meetings, created, last

vars == <<meetings, created, last>>

----------------------------------------------------------------------------
(* Bounds of the model *)

\* number of meetings ever created in one behaviour
MaxMeetings == 2

\* user identities
Users == {"u1", "u2"}

----------------------------------------------------------------------------
(* Time model: datetime / pendulum accessors *)

MinutesPerDay == 1440

T(d, h, m) == d * MinutesPerDay + h * 60 + m

\* datetime.weekday(): Monday = 0 ... Sunday = 6
weekday(t) == (t \div MinutesPerDay) % 7

\* datetime.hour
hour(t) == (t % MinutesPerDay) \div 60

\* DateTime.at(hour, minute): same calendar day, given time of day
at(t, h, m) == (t \div MinutesPerDay) * MinutesPerDay + h * 60 + m

\* DateTime.next(pendulum.MONDAY): 00:00 of the first Monday strictly after
\* the day of t (keep_time defaults to False)
next_monday(t) == ((t \div MinutesPerDay) + (7 - weekday(t))) * MinutesPerDay

----------------------------------------------------------------------------
(* Repository: MeetingService *)

\* Meeting rows that create_meeting can store in this model: the scheduling
\* fields of models.Meeting (title, type, status, ... are not read by the
\* engine).  end_time is start_time + duration_minutes.
MeetingStarts == {T(4, 9, 0)}

MeetingDurations == {30, 240}

MeetingParticipants == {<<"u1">>, <<"u1", "u2">>}

RangeOf(seq) == {seq[i] : i \in 1..Len(seq)}

\* MeetingService.get_user_meetings_in_range: the rows whose organizer or
\* participant is the user and whose START lies in [start_date, end_date],
\* de-duplicated through a set and sorted by start_time.  The order of rows
\* with equal start_time is the iteration order of a Python set, which the
\* program does not control: every order is a possible return value.
UserMeetingsInRange(user_id, start_date, end_date) ==
    LET organizer_meetings ==
            {m \in meetings : /\ m.organizer_id = user_id
                              /\ m.start_time >= start_date
                              /\ m.start_time <= end_date}
        participant_meetings ==
            {m \in meetings : /\ user_id \in RangeOf(m.participants)
                              /\ m.start_time >= start_date
                              /\ m.start_time <= end_date}
    IN  organizer_meetings \cup participant_meetings

SortedByStart(S) ==
    {f \in [1..Cardinality(S) -> S] :
        /\ \A i, j \in 1..Cardinality(S) : i # j => f[i] # f[j]
        /\ \A i, j \in 1..Cardinality(S) :
              i < j => f[i].start_time <= f[j].start_time}

get_user_meetings_in_range(user_id, start_date, end_date) ==
    SortedByStart(UserMeetingsInRange(user_id, start_date, end_date))

----------------------------------------------------------------------------
(* Conflict detector *)

BufferMinutes == 15

ExtendMinutes == 120

_times_overlap(start1, end1, start2, end2) ==
    start1 < end2 /\ start2 < end1

_is_back_to_back(start1, end1, start2, end2) ==
    end1 = start2 \/ end2 = start1

\* variant: only a meeting 2 that follows meeting 1 is examined
_violates_buffer_forward(start1, end1, start2, end2, minutes) ==
    IF end1 <= start2 THEN (start2 - end1) < minutes
    ELSE FALSE

\* variant: a gap of exactly the buffer counts as a violation
_violates_buffer_inclusive(start1, end1, start2, end2, minutes) ==
    IF end1 <= start2 THEN (start2 - end1) <= minutes
    ELSE IF end2 <= start1 THEN (start1 - end2) <= minutes
    ELSE FALSE

_violates_buffer(start1, end1, start2, end2, minutes) ==
    IF end1 <= start2 THEN (start2 - end1) < minutes
    ELSE IF end2 <= start1 THEN (start1 - end2) < minutes
    ELSE FALSE

ConflictDetails(meeting, kind) ==
    [meeting_id    |-> meeting.id,
     start_time    |-> meeting.start_time,
     end_time      |-> meeting.end_time,
     participants  |-> meeting.participants,
     conflict_type |-> kind]

\* the body of the for loop of detect_conflicts for one meeting: the records
\* it appends (none or one)
ClassifyMeeting(target_start, target_end, meeting) ==
    IF _times_overlap(target_start, target_end,
                      meeting.start_time, meeting.end_time)
    THEN <<ConflictDetails(meeting, "overlap")>>
    ELSE IF _is_back_to_back(target_start, target_end,
                             meeting.start_time, meeting.end_time)
    THEN <<ConflictDetails(meeting, "back_to_back")>>
    ELSE IF _violates_buffer(target_start, target_end,
                             meeting.start_time, meeting.end_time,
                             BufferMinutes)
    THEN <<ConflictDetails(meeting, "buffer_violation")>>
    ELSE <<>>

RECURSIVE ClassifyAll(_, _, _, _)
ClassifyAll(target_start, target_end, existing_meetings, i) ==
    IF i > Len(existing_meetings) THEN <<>>
    ELSE ClassifyMeeting(target_start, target_end, existing_meetings[i])
         \o ClassifyAll(target_start, target_end, existing_meetings, i + 1)

\* the list the repository returned for the extended range
FetchedFor(user_id, start_time, end_time) ==
    get_user_meetings_in_range(user_id, start_time - ExtendMinutes,
                               end_time + ExtendMinutes)

\* detect_conflicts, given the list the repository returned
detect_conflicts(start_time, end_time, existing_meetings) ==
    ClassifyAll(start_time, end_time, existing_meetings, 1)

----------------------------------------------------------------------------
(* Slot generator *)

SlotStride == 30

\* SchedulingPreferences(): the defaults of models.SchedulingPreferences; a
\* time of day "HH:MM" is the sequence of its characters
DefaultPreferences ==
    [preferred_start_time |-> <<"0", "9", ":", "0", "0">>,
     preferred_end_time   |-> <<"1", "7", ":", "0", "0">>]

Digit(c) ==
    CASE c = "0" -> 0 [] c = "1" -> 1 [] c = "2" -> 2 [] c = "3" -> 3
      [] c = "4" -> 4 [] c = "5" -> 5 [] c = "6" -> 6 [] c = "7" -> 7
      [] c = "8" -> 8 [] c = "9" -> 9

\* map(int, s.split(':')) on an "HH:MM" string
ParseHHMM(s) ==
    <<Digit(s[1]) * 10 + Digit(s[2]), Digit(s[4]) * 10 + Digit(s[5])>>

\* TimeSlot(start_time, end_time) with the dataclass defaults
\* TimeSlot(start_time=..., end_time=...): the other fields take their
\* defaults, the two lists being set to [] by __post_init__
TimeSlot(start_time, end_time) ==
    [start_time              |-> start_time,
     end_time                |-> end_time,
     score                   |-> 0,
     available_participants  |-> <<>>,
     conflicted_participants |-> <<>>,
     reasoning               |-> <<>>]

\* the inner while loop of _generate_time_slots: the slots of one day
RECURSIVE DaySlots(_, _, _)
DaySlots(slot_start, day_end, duration_minutes) ==
    IF slot_start + duration_minutes <= day_end
    THEN <<TimeSlot(slot_start, slot_start + duration_minutes)>>
         \o DaySlots(slot_start + SlotStride, day_end, duration_minutes)
    ELSE <<>>

\* variant: only Sunday is skipped
IsWeekendSundayOnly(current) == weekday(current) >= 6

\* the weekend test of the outer loop
IsWeekend(current) == weekday(current) >= 5

\* The outer while loop of _generate_time_slots from the position current
\* with the list slots built so far.  The result is the list at the moment
\* the function is left, and whether it is left by an exception: on a Monday
\* to Thursday the step to the next day is
\*     current.next(current.add(days=1))
\* which hands a DateTime to DateTime.next where a weekday number is
\* expected; next() compares its argument with the weekday bounds and the
\* comparison of a DateTime with an integer raises TypeError.
RECURSIVE GenerateLoop(_, _, _, _, _)
GenerateLoop(current, end, duration_minutes, preferences, slots) ==
    LET pref_start == ParseHHMM(preferences.preferred_start_time)
        pref_end   == ParseHHMM(preferences.preferred_end_time)
    IN  IF ~(current < end)
        THEN [raised |-> FALSE, slots |-> slots]
        ELSE IF IsWeekend(current)
        THEN GenerateLoop(at(next_monday(current), pref_start[1], pref_start[2]),
                          end, duration_minutes, preferences, slots)
        ELSE LET day_start == at(current, pref_start[1], pref_start[2])
                 day_end   == at(current, pref_end[1], pref_end[2])
                 day_slots == slots \o DaySlots(day_start, day_end,
                                                duration_minutes)
             IN  IF weekday(current) = 4
                 THEN GenerateLoop(next_monday(current), end,
                                   duration_minutes, preferences, day_slots)
                 ELSE [raised |-> TRUE, slots |-> day_slots]

\* variant: each slot is put at the front of the list (slots.insert(0, ...))
_generate_time_slots_newest_first(start_date, end_date, duration_minutes, preferences) ==
    LET gen == GenerateLoop(start_date, end_date, duration_minutes,
                            preferences, <<>>)
    IN  [raised |-> gen.raised,
         slots  |-> [i \in 1..Len(gen.slots) |->
                        gen.slots[Len(gen.slots) + 1 - i]]]

_generate_time_slots(start_date, end_date, duration_minutes, preferences) ==
    GenerateLoop(start_date, end_date, duration_minutes, preferences, <<>>)

----------------------------------------------------------------------------
(* Slot scorer *)

\* variant: only the first conflicted participant is penalised
ScoreParticipantFirstConflictOnly(acc, slot, participant_id) ==
    LET fetched   == CHOOSE f \in FetchedFor(participant_id, slot.start_time,
                                             slot.end_time) : TRUE
        conflicts == detect_conflicts(slot.start_time, slot.end_time, fetched)
    IN  IF Len(conflicts) > 0
        THEN [acc EXCEPT
                 !.conflicted = Append(@, participant_id),
                 !.score = IF acc.conflicted = <<>>
                           THEN @ - Len(conflicts) * 30 ELSE @,
                 !.reasoning_parts =
                     Append(@, <<"Conflicts for", participant_id,
                                 Len(conflicts)>>)]
        ELSE [acc EXCEPT !.available = Append(@, participant_id)]

\* variant: the penalty of 30 is divided among the conflicts
ScoreParticipantSharedPenalty(acc, slot, participant_id) ==
    LET fetched   == CHOOSE f \in FetchedFor(participant_id, slot.start_time,
                                             slot.end_time) : TRUE
        conflicts == detect_conflicts(slot.start_time, slot.end_time, fetched)
    IN  IF Len(conflicts) > 0
        THEN [acc EXCEPT
                 !.conflicted = Append(@, participant_id),
                 !.score = @ - (30 \div Len(conflicts)),
                 !.reasoning_parts =
                     Append(@, <<"Conflicts for", participant_id,
                                 Len(conflicts)>>)]
        ELSE [acc EXCEPT !.available = Append(@, participant_id)]

\* one iteration of the participant loop of _score_time_slot.  Only the
\* number of conflict records is read, which does not depend on the order
\* in which the repository returned the meetings.
ScoreParticipant(acc, slot, participant_id) ==
    LET fetched   == CHOOSE f \in FetchedFor(participant_id, slot.start_time,
                                             slot.end_time) : TRUE
        conflicts == detect_conflicts(slot.start_time, slot.end_time, fetched)
    IN  IF Len(conflicts) > 0
        THEN [acc EXCEPT
                 !.conflicted = Append(@, participant_id),
                 !.score = @ - Len(conflicts) * 30,
                 !.reasoning_parts =
                     Append(@, <<"Conflicts for", participant_id,
                                 Len(conflicts)>>)]
        ELSE [acc EXCEPT !.available = Append(@, participant_id)]

RECURSIVE ScoreParticipants(_, _, _, _)
ScoreParticipants(acc, slot, participants, i) ==
    IF i > Len(participants) THEN acc
    ELSE ScoreParticipants(ScoreParticipant(acc, slot, participants[i]),
                           slot, participants, i + 1)

\* variant: the bonus is given as soon as one participant is available
ScoreAllAvailableAny(acc, participants) ==
    IF Len(acc.available) > 0
    THEN [acc EXCEPT !.score = @ + 20,
                     !.reasoning_parts =
                         Append(@, <<"All participants available">>)]
    ELSE acc

\* variant: the bonus needs a participant (if participants and len(...) == ...)
ScoreAllAvailableNonEmpty(acc, participants) ==
    IF Len(participants) > 0 /\ Len(acc.available) = Len(participants)
    THEN [acc EXCEPT !.score = @ + 20,
                     !.reasoning_parts =
                         Append(@, <<"All participants available">>)]
    ELSE acc

\* bonus for all participants available
ScoreAllAvailable(acc, participants) ==
    IF Len(acc.available) = Len(participants)
    THEN [acc EXCEPT !.score = @ + 20,
                     !.reasoning_parts =
                         Append(@, <<"All participants available">>)]
    ELSE acc

\* variant: the morning boost reaches to the 12 o'clock hour
ScoreTimeOfDayLongMorning(acc, slot) ==
    LET h == hour(slot.start_time)
    IN  IF 9 <= h /\ h <= 12
        THEN [acc EXCEPT !.score = @ + 15,
                         !.reasoning_parts = Append(@, <<"Good morning time">>)]
        ELSE IF 13 <= h /\ h <= 14
        THEN [acc EXCEPT !.score = @ - 10,
                         !.reasoning_parts = Append(@, <<"Lunch time penalty">>)]
        ELSE IF 16 <= h /\ h <= 17
        THEN [acc EXCEPT !.score = @ - 5,
                         !.reasoning_parts = Append(@, <<"Late afternoon">>)]
        ELSE IF h < 8 \/ h > 18
        THEN [acc EXCEPT !.score = @ - 25,
                         !.reasoning_parts =
                             Append(@, <<"Outside normal hours">>)]
        ELSE acc

\* time of day preferences
ScoreTimeOfDay(acc, slot) ==
    LET h == hour(slot.start_time)
    IN  IF 9 <= h /\ h <= 11
        THEN [acc EXCEPT !.score = @ + 15,
                         !.reasoning_parts = Append(@, <<"Good morning time">>)]
        ELSE IF 13 <= h /\ h <= 14
        THEN [acc EXCEPT !.score = @ - 10,
                         !.reasoning_parts = Append(@, <<"Lunch time penalty">>)]
        ELSE IF 16 <= h /\ h <= 17
        THEN [acc EXCEPT !.score = @ - 5,
                         !.reasoning_parts = Append(@, <<"Late afternoon">>)]
        ELSE IF h < 8 \/ h > 18
        THEN [acc EXCEPT !.score = @ - 25,
                         !.reasoning_parts =
                             Append(@, <<"Outside normal hours">>)]
        ELSE acc

\* day of week scoring
ScoreWeekday(acc, slot) ==
    IF weekday(slot.start_time) = 0
    THEN [acc EXCEPT !.score = @ + 5,
                     !.reasoning_parts = Append(@, <<"Monday energy">>)]
    ELSE IF weekday(slot.start_time) = 4
    THEN [acc EXCEPT !.score = @ - 5,
                     !.reasoning_parts = Append(@, <<"Friday afternoon">>)]
    ELSE acc

\* variant: the note of the long meeting is put in front of the others
ScoreDurationNoteFirst(acc, slot) ==
    IF hour(slot.end_time) - hour(slot.start_time) >= 2
    THEN [acc EXCEPT !.score = @ - 10,
                     !.reasoning_parts = <<<<"Long meeting">>>> \o @]
    ELSE acc

\* meeting duration scoring
ScoreDuration(acc, slot) ==
    IF hour(slot.end_time) - hour(slot.start_time) >= 2
    THEN [acc EXCEPT !.score = @ - 10,
                     !.reasoning_parts = Append(@, <<"Long meeting">>)]
    ELSE acc

Max(a, b) == IF a >= b THEN a ELSE b

\* variant: the score is returned as accumulated
ScoreNoFloor(score) == score

\* score = max(0, score)
ScoreFloor(score) == Max(0, score)

\* the local variables of _score_time_slot before the participant loop
ScoreStart ==
    [score |-> 100, available |-> <<>>, conflicted |-> <<>>,
     reasoning_parts |-> <<>>]

\* _score_time_slot behind the participant loop, acc1 being the local
\* variables the loop left
ScoreAfterParticipants(acc1, slot, participants) ==
    LET acc2 == ScoreAllAvailable(acc1, participants)
        acc3 == ScoreTimeOfDay(acc2, slot)
        acc4 == ScoreWeekday(acc3, slot)
        acc5 == ScoreDuration(acc4, slot)
    IN  [score      |-> ScoreFloor(acc5.score),
         available  |-> acc5.available,
         conflicted |-> acc5.conflicted,
         reasoning  |-> IF acc5.reasoning_parts # <<>>
                        THEN acc5.reasoning_parts
                        ELSE <<<<"Standard slot">>>>]

_score_time_slot(slot, participants) ==
    ScoreAfterParticipants(ScoreParticipants(ScoreStart, slot, participants, 1),
                           slot, participants)

----------------------------------------------------------------------------
(* Optimal slot selector *)

TopK == 10

OptimalSlotResponse(slot, score_info) ==
    [start_time             |-> slot.start_time,
     end_time               |-> slot.end_time,
     score                  |-> score_info.score,
     participants_available |-> score_info.available,
     participants_conflicts |-> score_info.conflicted,
     reasoning              |-> score_info.reasoning]

\* variant: a slot scored 0 is kept
IsViableNonNegative(score_info) == score_info.score >= 0

\* if score_info['score'] > 0: only viable slots are kept
IsViable(score_info) == score_info.score > 0

\* the scoring loop of find_optimal_slots
RECURSIVE ScoreSlots(_, _, _)
ScoreSlots(potential_slots, participants, i) ==
    IF i > Len(potential_slots) THEN <<>>
    ELSE LET score_info == _score_time_slot(potential_slots[i], participants)
         IN  (IF IsViable(score_info)
              THEN <<OptimalSlotResponse(potential_slots[i], score_info)>>
              ELSE <<>>)
             \o ScoreSlots(potential_slots, participants, i + 1)

\* variant: an element goes in front of the elements of equal score (an
\* ascending sort that is reversed afterwards)
InsertByScoreBeforeTies(sorted, x) ==
    LET k == Cardinality({i \in 1..Len(sorted) : sorted[i].score > x.score})
    IN  SubSeq(sorted, 1, k) \o <<x>> \o SubSeq(sorted, k + 1, Len(sorted))

\* list.sort(key=score, reverse=True) is stable: an element goes behind all
\* elements already placed whose score is not smaller
InsertByScore(sorted, x) ==
    LET k == Cardinality({i \in 1..Len(sorted) : sorted[i].score >= x.score})
    IN  SubSeq(sorted, 1, k) \o <<x>> \o SubSeq(sorted, k + 1, Len(sorted))

RECURSIVE SortByScore(_, _, _)
SortByScore(seq, i, sorted) ==
    IF i > Len(seq) THEN sorted
    ELSE SortByScore(seq, i + 1, InsertByScore(sorted, seq[i]))

Min(a, b) == IF a <= b THEN a ELSE b

\* variant: the list is cut to its first ten entries before it is ranked
TruncateThenRank(scored_slots) ==
    SortByScore(SubSeq(scored_slots, 1, Min(TopK, Len(scored_slots))),
                1, <<>>)

\* scored_slots.sort(...); return scored_slots[:10]
RankAndTruncate(scored_slots) ==
    LET ranked == SortByScore(scored_slots, 1, <<>>)
    IN  SubSeq(ranked, 1, Min(TopK, Len(ranked)))

\* find_optimal_slots with preferences=None; an exception of the generator
\* leaves the function before any slot is scored
find_optimal_slots(participants, duration_minutes, range_start, range_end) ==
    LET gen == _generate_time_slots(range_start, range_end,
                                    duration_minutes, DefaultPreferences)
        scored_slots == IF gen.raised THEN <<>>
                        ELSE ScoreSlots(gen.slots, participants, 1)
    IN  [raised          |-> gen.raised,
         potential_slots |-> gen.slots,
         scored_slots    |-> scored_slots,
         result          |-> IF gen.raised THEN <<>>
                             ELSE RankAndTruncate(scored_slots)]

----------------------------------------------------------------------------
(* Alternatives *)

AlternativesLimit == 5

SearchDays == 7

\* variant: only the test on the original start is made
KeepsAlternativeStartOnly(alt, original_start, original_end) ==
    ~(alt.start_time <= original_start /\ original_start < alt.end_time)

\* the condition of the list comprehension of suggest_meeting_alternatives
KeepsAlternative(alt, original_start, original_end) ==
    ~(\/ (alt.start_time <= original_start /\ original_start < alt.end_time)
      \/ (alt.start_time < original_end /\ original_end <= alt.end_time))

RECURSIVE FilterOriginal(_, _, _, _)
FilterOriginal(alternatives, original_start, original_end, i) ==
    IF i > Len(alternatives) THEN <<>>
    ELSE (IF KeepsAlternative(alternatives[i], original_start, original_end)
          THEN <<alternatives[i]>> ELSE <<>>)
         \o FilterOriginal(alternatives, original_start, original_end, i + 1)

\* the part of suggest_meeting_alternatives behind the search: drop the
\* original time, return the first five
SelectAlternatives(alternatives, original_start, duration_minutes) ==
    LET original_end == original_start + duration_minutes
        kept == FilterOriginal(alternatives, original_start, original_end, 1)
    IN  SubSeq(kept, 1, Min(AlternativesLimit, Len(kept)))

\* suggest_meeting_alternatives: an exception of the search leaves the
\* function
suggest_meeting_alternatives(original_start, duration_minutes, participants) ==
    LET out == find_optimal_slots(participants, duration_minutes,
                                  original_start,
                                  original_start + SearchDays * MinutesPerDay)
    IN  [raised       |-> out.raised,
         alternatives |-> out.result,
         result       |-> IF out.raised THEN <<>>
                          ELSE SelectAlternatives(out.result, original_start,
                                                  duration_minutes)]

----------------------------------------------------------------------------
(* Density *)

WorkingMinutes == 480

\* DateTime.start_of('day')
start_of_day(t) == (t \div MinutesPerDay) * MinutesPerDay

\* variant: the day ends at the midnight that begins the next day
end_of_day_midnight(t) == start_of_day(t) + MinutesPerDay

\* DateTime.end_of('day'), 23:59:59.999999: the last whole minute of the day,
\* all stored timestamps being whole minutes
end_of_day(t) == start_of_day(t) + MinutesPerDay - 1

\* sum(meeting.duration_minutes for meeting in meetings)
RECURSIVE SumDurations(_, _)
SumDurations(fetched, i) ==
    IF i > Len(fetched) THEN 0
    ELSE fetched[i].duration_minutes + SumDurations(fetched, i + 1)

\* density_score = (total / working_hours) * 100 is kept as the fraction
\* num / den; a comparison density_score < c is num < c * den
DensityScore(total_meeting_time) ==
    [num |-> total_meeting_time * 100, den |-> WorkingMinutes]

DensityBelow(density_score, c) == density_score.num < c * density_score.den

\* the if/elif chain of get_meeting_density
Recommendation(density_score) ==
    IF DensityBelow(density_score, 25)
    THEN "Light meeting day - good for scheduling"
    ELSE IF DensityBelow(density_score, 50)
    THEN "Moderate meeting load - schedule with care"
    ELSE IF DensityBelow(density_score, 75)
    THEN "Heavy meeting day - avoid non-essential meetings"
    ELSE "Overloaded day - consider rescheduling"

\* get_meeting_density, given the list the repository returned for the day
get_meeting_density(fetched) ==
    IF Len(fetched) = 0
    THEN [total_meetings     |-> 0,
          total_meeting_time |-> 0,
          free_time          |-> 480,
          density_score      |-> [num |-> 0, den |-> WorkingMinutes],
          recommendation     |-> "Good day to schedule meetings"]
    ELSE LET total_meeting_time == SumDurations(fetched, 1)
             density_score == DensityScore(total_meeting_time)
         IN  [total_meetings     |-> Len(fetched),
              total_meeting_time |-> total_meeting_time,
              free_time          |-> WorkingMinutes - total_meeting_time,
              density_score      |-> density_score,
              recommendation     |-> Recommendation(density_score)]

----------------------------------------------------------------------------
(* Tool layer: main.py *)

\* a timestamp argument of a tool is a string: <<"iso", t>> stands for the
\* ISO text of the instant t, <<"bad">> for a text that is no timestamp

\* datetime.fromisoformat: raises ValueError on a text it cannot parse
fromisoformat(text) ==
    IF text[1] = "iso" THEN [ok |-> TRUE, value |-> text[2]]
    ELSE [ok |-> FALSE, value |-> 0]

\* datetime.isoformat
isoformat(t) == <<"iso", t>>

\* variant: the handler is "except ValueError"
CaughtByHandlerValueErrorOnly(exc) == exc = "ValueError"

\* "except Exception as e": every exception the body can raise is a subclass
\* of Exception (ValueError of the parse, TypeError of the generator,
\* sqlalchemy's OperationalError of a failing repository read)
CaughtByHandler(exc) == exc \in {"ValueError", "TypeError", "OperationalError"}

\* scheduler.find_optimal_meeting_slots: the slots as dictionaries
RECURSIVE SlotDicts(_, _)
SlotDicts(slots, i) ==
    IF i > Len(slots) THEN <<>>
    ELSE <<[start_time             |-> isoformat(slots[i].start_time),
            end_time               |-> isoformat(slots[i].end_time),
            score                  |-> slots[i].score,
            participants_available |-> slots[i].participants_available,
            participants_conflicts |-> slots[i].participants_conflicts,
            reasoning              |-> slots[i].reasoning]>>
         \o SlotDicts(slots, i + 1)

\* the loop of the tool over optimal_slots[:max_suggestions]
RECURSIVE WithTimezone(_, _, _)
WithTimezone(dicts, max_suggestions, i) ==
    IF i > Len(dicts) \/ i > max_suggestions THEN <<>>
    ELSE <<[start_time             |-> dicts[i].start_time,
            end_time               |-> dicts[i].end_time,
            score                  |-> dicts[i].score,
            participants_available |-> dicts[i].participants_available,
            participants_conflicts |-> dicts[i].participants_conflicts,
            reasoning              |-> dicts[i].reasoning,
            timezone               |-> "UTC"]>>
         \o WithTimezone(dicts, max_suggestions, i + 1)

\* the value the except branch of the tool find_optimal_slots returns
SlotsError(participants, exc) ==
    <<[start_time              |-> "",
       end_time                |-> "",
       score                   |-> 0,
       available_participants  |-> <<>>,
       conflicted_participants |-> participants,
       reasoning               |-> <<"Error", exc>>,
       timezone                |-> "UTC"]>>

\* what the try statement of a tool yields when its body raises exc and
\* error_value is what the except branch returns
Handled(exc, error_value) ==
    IF CaughtByHandler(exc)
    THEN [exc |-> exc, escaped |-> "none", value |-> error_value]
    ELSE [exc |-> exc, escaped |-> exc, value |-> <<>>]

\* the body of main.find_optimal_slots from the return of the engine call
\* with the outcome out.  repository_fails: the repository read raises; the
\* generator runs before the first read, and a read happens only when there
\* is a slot and a participant to score.
SlotsAfterEngine(participants, max_suggestions, repository_fails, out) ==
    IF out.raised
    THEN Handled("TypeError", SlotsError(participants, "TypeError"))
    ELSE IF /\ repository_fails
            /\ Len(out.potential_slots) > 0
            /\ Len(participants) > 0
    THEN Handled("OperationalError",
                 SlotsError(participants, "OperationalError"))
    ELSE [exc |-> "none", escaped |-> "none",
          value |-> WithTimezone(SlotDicts(out.result, 1),
                                 max_suggestions, 1)]

\* main.find_optimal_slots
tool_find_optimal_slots(participants, duration_minutes, range_start, range_end, max_suggestions, repository_fails) ==
    LET start_date == fromisoformat(range_start)
        end_date   == fromisoformat(range_end)
    IN  IF ~start_date.ok \/ ~end_date.ok
        THEN Handled("ValueError", SlotsError(participants, "ValueError"))
        ELSE CHOOSE outcome \in
                 {SlotsAfterEngine(participants, max_suggestions,
                                   repository_fails, out) :
                    out \in {find_optimal_slots(participants,
                                                duration_minutes,
                                                start_date.value,
                                                end_date.value)}} : TRUE

\* scheduler.detect_scheduling_conflicts followed by the loop of the tool
\* that adds the suggestions and the severity
RECURSIVE EnhancedConflicts(_, _)
EnhancedConflicts(conflicts, i) ==
    IF i > Len(conflicts) THEN <<>>
    ELSE <<[meeting_id    |-> conflicts[i].meeting_id,
            start_time    |-> isoformat(conflicts[i].start_time),
            end_time      |-> isoformat(conflicts[i].end_time),
            participants  |-> conflicts[i].participants,
            conflict_type |-> conflicts[i].conflict_type,
            severity      |-> IF conflicts[i].conflict_type = "overlap"
                              THEN "high" ELSE "medium"]>>
         \o EnhancedConflicts(conflicts, i + 1)

\* the value the except branch of the tool detect_scheduling_conflicts returns
ConflictsError(start_time, end_time) ==
    <<[meeting_id    |-> "error",
       start_time    |-> start_time,
       end_time      |-> end_time,
       participants  |-> <<>>,
       conflict_type |-> "system_error",
       severity      |-> "high"]>>

\* main.detect_scheduling_conflicts, given the list the repository returns
\* when its read succeeds
tool_detect_scheduling_conflicts(start_time, end_time, fetched, repository_fails) ==
    LET start_dt == fromisoformat(start_time)
        end_dt   == fromisoformat(end_time)
    IN  IF ~start_dt.ok \/ ~end_dt.ok
        THEN Handled("ValueError", ConflictsError(start_time, end_time))
        ELSE IF repository_fails
        THEN Handled("OperationalError",
                     ConflictsError(start_time, end_time))
        ELSE [exc |-> "none", escaped |-> "none",
              value |-> EnhancedConflicts(
                            detect_conflicts(start_dt.value, end_dt.value,
                                             fetched), 1)]

----------------------------------------------------------------------------
(* State machine *)

Idle == [op |-> "idle"]

Init ==
    /\ meetings = {}
    /\ created = 0
    /\ last = Idle

\* MeetingService.create_meeting
CreateMeeting ==
    /\ last.op = "idle"
    /\ created < MaxMeetings
    /\ \E s \in MeetingStarts, d \in MeetingDurations,
          o \in Users, ps \in MeetingParticipants :
          meetings' = meetings \cup
              {[id               |-> created + 1,
                start_time       |-> s,
                end_time         |-> s + d,
                duration_minutes |-> d,
                organizer_id     |-> o,
                participants     |-> ps]}
    /\ created' = created + 1
    /\ UNCHANGED last

\* MeetingService.delete_meeting
DeleteMeeting ==
    /\ last.op = "idle"
    /\ \E m \in meetings : meetings' = meetings \ {m}
    /\ UNCHANGED <<created, last>>

\* query ranges of detect_conflicts, all on the Friday of the first week
DetectRanges ==
    {<<T(4, 9, 15), T(4, 9, 45)>>, <<T(4, 9, 30), T(4, 10, 0)>>,
     <<T(4, 9, 35), T(4, 10, 5)>>, <<T(4, 10, 0), T(4, 10, 30)>>,
     <<T(4, 9, 45), T(4, 10, 15)>>, <<T(4, 9, 44), T(4, 10, 14)>>,
     <<T(4, 8, 30), T(4, 9, 0)>>,  <<T(4, 8, 15), T(4, 8, 50)>>,
     <<T(4, 8, 0), T(4, 8, 45)>>,  <<T(4, 11, 0), T(4, 11, 30)>>,
     <<T(4, 12, 0), T(4, 12, 30)>>, <<T(4, 13, 0), T(4, 13, 30)>>,
     <<T(4, 13, 10), T(4, 13, 40)>>, <<T(4, 6, 0), T(4, 6, 30)>>}

\* SchedulingEngine.detect_conflicts
DetectConflicts ==
    /\ last.op = "idle"
    /\ \E u \in Users, r \in DetectRanges :
         \E fetched \in FetchedFor(u, r[1], r[2]) :
            last' = [op         |-> "detect_conflicts",
                     user_id    |-> u,
                     start_time |-> r[1],
                     end_time   |-> r[2],
                     fetched    |-> fetched,
                     conflicts  |-> detect_conflicts(r[1], r[2], fetched)]
    /\ UNCHANGED <<meetings, created>>

\* search windows <<start, end>> with start < end: within the Friday of the
\* first week, from that Friday into or across the weekend, from the weekend
\* into the second week, and over Monday to Thursday days
Windows ==
    {<<T(4, 0, 0), T(5, 0, 0)>>,  <<T(4, 0, 0), T(7, 0, 0)>>,
     <<T(4, 10, 0), T(4, 12, 0)>>, <<T(4, 0, 0), T(8, 0, 0)>>,
     <<T(5, 0, 0), T(7, 9, 0)>>,  <<T(5, 0, 0), T(7, 12, 0)>>,
     <<T(6, 10, 0), T(6, 18, 0)>>, <<T(0, 0, 0), T(1, 0, 0)>>,
     <<T(3, 0, 0), T(5, 0, 0)>>}

\* meeting durations asked for, in minutes
SearchDurations == {30, 90, 480}

\* participant lists asked for
SearchParticipants == {<<"u1">>, <<"u2">>, <<"u1", "u2">>}

\* SchedulingEngine._generate_time_slots
GenerateTimeSlots ==
    /\ last.op = "idle"
    /\ \E w \in Windows, d \in SearchDurations :
         LET gen == _generate_time_slots(w[1], w[2], d, DefaultPreferences)
         IN  last' = [op               |-> "_generate_time_slots",
                      start_date       |-> w[1],
                      end_date         |-> w[2],
                      duration_minutes |-> d,
                      raised           |-> gen.raised,
                      slots            |-> gen.slots]
    /\ UNCHANGED <<meetings, created>>

\* slots handed to the scorer: <<start, duration>>
ScoredSlots ==
    {<<T(0, 9, 0), 30>>,  <<T(0, 7, 0), 30>>,  <<T(2, 12, 0), 30>>,
     <<T(2, 13, 0), 30>>, <<T(2, 16, 0), 60>>, <<T(2, 8, 0), 30>>,
     <<T(3, 18, 30), 30>>, <<T(3, 19, 0), 30>>,
     <<T(4, 9, 0), 30>>,  <<T(4, 9, 30), 90>>, <<T(4, 9, 0), 120>>,
     <<T(4, 7, 30), 90>>, <<T(4, 13, 0), 60>>, <<T(1, 23, 0), 120>>}

\* participant lists handed to the scorer: those of the searches, the other
\* order of the pair, the empty list and a list naming a participant twice
ScoredParticipants ==
    SearchParticipants \cup {<<>>, <<"u2", "u1">>, <<"u1", "u1">>}

\* SchedulingEngine._score_time_slot
ScoreTimeSlot ==
    /\ last.op = "idle"
    /\ \E sl \in ScoredSlots, ps \in ScoredParticipants :
         LET slot == TimeSlot(sl[1], sl[1] + sl[2])
         IN  last' = [op           |-> "_score_time_slot",
                      slot         |-> slot,
                      participants |-> ps,
                      score_info   |-> _score_time_slot(slot, ps)]
    /\ UNCHANGED <<meetings, created>>

\* inputs <<participants, duration>> a validating caller would reject: no
\* participant, or a duration outside [1, 480]
UnvalidatedInputs ==
    {<< <<>>, 30 >>, << <<"u1">>, 0 >>, << <<"u1">>, 0 - 30 >>,
     << <<"u1">>, 510 >>, << <<"u1", "u2">>, 0 >>}

\* inputs <<participants, duration>> of find_optimal_slots
SearchInputs == (SearchParticipants \X SearchDurations) \cup UnvalidatedInputs

\* the record of a call of find_optimal_slots
SearchCall(ps, d, w, out) ==
    [op               |-> "find_optimal_slots",
     participants     |-> ps,
     duration_minutes |-> d,
     date_range_start |-> w[1],
     date_range_end   |-> w[2],
     raised           |-> out.raised,
     potential_slots  |-> out.potential_slots,
     scored_slots     |-> out.scored_slots,
     result           |-> out.result]

\* variant: the search books its best slot as a meeting
FindOptimalSlotsBooking ==
    /\ last.op = "idle"
    /\ \E w \in Windows, in \in SearchInputs :
         LET out == find_optimal_slots(in[1], in[2], w[1], w[2])
         IN  /\ last' = SearchCall(in[1], in[2], w, out)
             /\ meetings' =
                  IF Len(out.result) > 0
                  THEN meetings \cup
                         {[id               |-> 0,
                           start_time       |-> out.result[1].start_time,
                           end_time         |-> out.result[1].end_time,
                           duration_minutes |-> in[2],
                           organizer_id     |-> "u1",
                           participants     |-> in[1]]}
                  ELSE meetings
    /\ UNCHANGED created

\* SchedulingEngine.find_optimal_slots
FindOptimalSlots ==
    /\ last.op = "idle"
    /\ \E w \in Windows, in \in SearchInputs :
         LET out == find_optimal_slots(in[1], in[2], w[1], w[2])
         IN  last' = SearchCall(in[1], in[2], w, out)
    /\ UNCHANGED <<meetings, created>>

\* dates asked for: the Friday of the meetings, the Monday before it and the
\* Saturday after it
DensityDates == {T(4, 15, 0), T(4, 0, 0), T(0, 8, 0), T(5, 12, 0)}

\* SchedulingEngine.get_meeting_density
GetMeetingDensity ==
    /\ last.op = "idle"
    /\ \E u \in Users, date \in DensityDates :
         \E fetched \in get_user_meetings_in_range(u, start_of_day(date),
                                                   end_of_day(date)) :
            last' = [op      |-> "get_meeting_density",
                     user_id |-> u,
                     date    |-> date,
                     fetched |-> fetched,
                     density |-> get_meeting_density(fetched)]
    /\ UNCHANGED <<meetings, created>>

\* two calls of detect_conflicts with the same arguments, the repository
\* unchanged between them; each call reads the repository itself
DetectConflictsTwice ==
    /\ last.op = "idle"
    /\ \E u \in Users, r \in DetectRanges :
         \E fetched1 \in FetchedFor(u, r[1], r[2]),
            fetched2 \in FetchedFor(u, r[1], r[2]) :
            last' = [op         |-> "detect_conflicts_twice",
                     user_id    |-> u,
                     start_time |-> r[1],
                     end_time   |-> r[2],
                     first      |-> detect_conflicts(r[1], r[2], fetched1),
                     second     |-> detect_conflicts(r[1], r[2], fetched2)]
    /\ UNCHANGED <<meetings, created>>

\* timestamp texts handed to the tools: windows and ranges as ISO text, and
\* a text that does not parse
ToolWindows ==
    {<<isoformat(T(4, 0, 0)), isoformat(T(5, 0, 0))>>,
     <<isoformat(T(0, 0, 0)), isoformat(T(1, 0, 0))>>,
     <<isoformat(T(5, 0, 0)), isoformat(T(7, 9, 0))>>,
     <<<<"bad">>, isoformat(T(5, 0, 0))>>}

ToolRanges ==
    {<<isoformat(T(4, 9, 15)), isoformat(T(4, 9, 45))>>,
     <<isoformat(T(4, 9, 35)), isoformat(T(4, 10, 5))>>,
     <<isoformat(T(4, 10, 0)), isoformat(T(4, 10, 30))>>,
     <<isoformat(T(4, 9, 15)), <<"bad">>>>}

SuggestionLimits == {1, 5}

\* main.find_optimal_slots
ToolFindOptimalSlots ==
    /\ last.op = "idle"
    /\ \E w \in ToolWindows, ps \in {<<"u1">>, <<"u1", "u2">>},
          k \in SuggestionLimits, fails \in BOOLEAN :
         \E out \in {tool_find_optimal_slots(ps, 30, w[1], w[2], k, fails)} :
             last' = [op           |-> "tool_find_optimal_slots",
                      participants |-> ps,
                      window       |-> w,
                      exc          |-> out.exc,
                      escaped      |-> out.escaped,
                      value        |-> out.value]
    /\ UNCHANGED <<meetings, created>>

\* main.detect_scheduling_conflicts
ToolDetectSchedulingConflicts ==
    /\ last.op = "idle"
    /\ \E u \in Users, r \in ToolRanges, fails \in BOOLEAN :
         LET s == fromisoformat(r[1])
             e == fromisoformat(r[2])
         IN  \E fetched \in FetchedFor(u, s.value, e.value) :
               LET out == tool_detect_scheduling_conflicts(r[1], r[2],
                                                           fetched, fails)
               IN  last' = [op      |-> "tool_detect_scheduling_conflicts",
                            user_id |-> u,
                            range   |-> r,
                            exc     |-> out.exc,
                            escaped |-> out.escaped,
                            value   |-> out.value]
    /\ UNCHANGED <<meetings, created>>

\* original proposed start times
OriginalStarts ==
    {T(4, 9, 0), T(4, 9, 15), T(4, 10, 40), T(0, 9, 0), T(5, 10, 0),
     T(3, 16, 0)}

\* SchedulingEngine.suggest_meeting_alternatives
SuggestMeetingAlternatives ==
    /\ last.op = "idle"
    /\ \E o \in OriginalStarts, d \in SearchDurations,
          ps \in SearchParticipants :
         LET out == suggest_meeting_alternatives(o, d, ps)
         IN  last' = [op               |-> "suggest_meeting_alternatives",
                      original_start   |-> o,
                      duration_minutes |-> d,
                      participants     |-> ps,
                      raised           |-> out.raised,
                      alternatives     |-> out.alternatives,
                      result           |-> out.result]
    /\ UNCHANGED <<meetings, created>>

\* lines 387-395 of suggest_meeting_alternatives applied to a list that
\* find_optimal_slots returned
SelectFromSearch ==
    /\ last.op = "idle"
    /\ \E w \in Windows, d \in SearchDurations, ps \in SearchParticipants :
         LET out == find_optimal_slots(ps, d, w[1], w[2])
         IN  /\ ~out.raised
             /\ \E o \in OriginalStarts :
                  last' = [op               |-> "select_alternatives",
                           original_start   |-> o,
                           duration_minutes |-> d,
                           participants     |-> ps,
                           raised           |-> FALSE,
                           alternatives     |-> out.result,
                           result           |-> SelectAlternatives(
                                                    out.result, o, d)]
    /\ UNCHANGED <<meetings, created>>

\* the caller takes the result; the engine keeps nothing of the call
Return ==
    /\ last.op # "idle"
    /\ last' = Idle
    /\ UNCHANGED <<meetings, created>>

Next ==
    \/ CreateMeeting
    \/ DeleteMeeting
    \/ DetectConflicts
    \/ GenerateTimeSlots
    \/ ScoreTimeSlot
    \/ FindOptimalSlots
    \/ SuggestMeetingAlternatives
    \/ GetMeetingDensity
    \/ DetectConflictsTwice
    \/ ToolFindOptimalSlots
    \/ ToolDetectSchedulingConflicts
    \/ Return

Spec == Init /\ [][Next]_vars

\* instants of the ranges the three predicates are compared on
PredicateTimes == {0, 10, 20, 30, 40, 45, 60}

\* _times_overlap, _is_back_to_back and _violates_buffer on two ranges, in
\* both orders of the arguments
ComparePredicates ==
    /\ last.op = "idle"
    /\ \E a1, a2, b1, b2 \in PredicateTimes :
         last' = [op         |-> "predicates",
                  a          |-> <<a1, a2>>,
                  b          |-> <<b1, b2>>,
                  overlap_ab |-> _times_overlap(a1, a2, b1, b2),
                  overlap_ba |-> _times_overlap(b1, b2, a1, a2),
                  back_ab    |-> _is_back_to_back(a1, a2, b1, b2),
                  back_ba    |-> _is_back_to_back(b1, b2, a1, a2),
                  buffer_ab  |-> _violates_buffer(a1, a2, b1, b2,
                                                  BufferMinutes),
                  buffer_ba  |-> _violates_buffer(b1, b2, a1, a2,
                                                  BufferMinutes)]
    /\ UNCHANGED <<meetings, created>>

\* the range predicates on their own
NextPredicates ==
    \/ ComparePredicates
    \/ Return

SpecPredicates == Init /\ [][NextPredicates]_vars

\* a participant list and a permutation of it
PermutedLists ==
    {<< <<"u1", "u2">>, <<"u2", "u1">> >>,
     << <<"u1", "u1", "u2">>, <<"u2", "u1", "u1">> >>}

\* SchedulingEngine._score_time_slot for one slot and the two orders of a
\* participant list, the repository unchanged between the two calls
ScoreInBothOrders ==
    /\ last.op = "idle"
    /\ \E sl \in ScoredSlots, pq \in PermutedLists :
         LET slot == TimeSlot(sl[1], sl[1] + sl[2])
         IN  last' = [op           |-> "_score_time_slot_orders",
                      slot         |-> slot,
                      participants |-> pq[1],
                      permuted     |-> pq[2],
                      first        |-> _score_time_slot(slot, pq[1]),
                      second       |-> _score_time_slot(slot, pq[2])]
    /\ UNCHANGED <<meetings, created>>

\* slots and participant lists scored before and after a meeting is stored
AroundSlots ==
    {<<T(4, 9, 0), 30>>, <<T(4, 7, 30), 90>>, <<T(4, 13, 0), 60>>,
     <<T(0, 9, 0), 30>>}

AroundParticipants == {<<"u1">>, <<"u1", "u2">>}

\* SchedulingEngine._score_time_slot followed by MeetingService.create_meeting
ScoreThenCreate ==
    /\ last.op = "idle"
    /\ created < MaxMeetings
    /\ \E s \in MeetingStarts, d \in MeetingDurations,
          o \in Users, ps \in MeetingParticipants :
          meetings' = meetings \cup
              {[id               |-> created + 1,
                start_time       |-> s,
                end_time         |-> s + d,
                duration_minutes |-> d,
                organizer_id     |-> o,
                participants     |-> ps]}
    /\ created' = created + 1
    /\ \E sl \in AroundSlots, ps \in AroundParticipants :
         LET slot == TimeSlot(sl[1], sl[1] + sl[2])
         IN  last' = [op           |-> "_score_time_slot_then_create",
                      slot         |-> slot,
                      participants |-> ps,
                      before       |-> _score_time_slot(slot, ps)]

\* SchedulingEngine._score_time_slot for the same slot and list once the
\* meeting is stored
ScoreAfterCreate ==
    /\ last.op = "_score_time_slot_then_create"
    /\ last' = [op           |-> "_score_time_slot_around_create",
                slot         |-> last.slot,
                participants |-> last.participants,
                before       |-> last.before,
                after        |-> _score_time_slot(last.slot,
                                                  last.participants)]
    /\ UNCHANGED <<meetings, created>>

\* the scorer on its own and in pairs of calls
NextScorer ==
    \/ CreateMeeting
    \/ DeleteMeeting
    \/ ScoreTimeSlot
    \/ ScoreInBothOrders
    \/ ScoreThenCreate
    \/ ScoreAfterCreate
    \/ Return

SpecScorer == Init /\ [][NextScorer]_vars

\* day-long meetings late on the Friday and at the first minute of the
\* Saturday
LateStarts == {T(4, 23, 30), T(5, 0, 0)}

\* MeetingService.create_meeting for a meeting of 480 minutes
CreateDayLongMeeting ==
    /\ last.op = "idle"
    /\ created < MaxMeetings
    /\ \E s \in LateStarts, o \in Users, ps \in MeetingParticipants :
          meetings' = meetings \cup
              {[id               |-> created + 1,
                start_time       |-> s,
                end_time         |-> s + 480,
                duration_minutes |-> 480,
                organizer_id     |-> o,
                participants     |-> ps]}
    /\ created' = created + 1
    /\ UNCHANGED last

\* the density on repositories that also hold day-long meetings
NextDensity ==
    \/ CreateMeeting
    \/ CreateDayLongMeeting
    \/ DeleteMeeting
    \/ GetMeetingDensity
    \/ Return

SpecDensity == Init /\ [][NextDensity]_vars

\* searches run while other clients of the database write: participants and
\* durations (two candidates on the Friday)
ConcurrentParticipants == {<<"u1">>, <<"u1", "u2">>}

ConcurrentDurations == {450}

\* find_optimal_slots up to the scoring loop: the candidates are generated,
\* nothing is read yet.  i is the candidate and j the participant whose
\* detect_conflicts call comes next, acc the local variables of the running
\* _score_time_slot call, snapshots the repository states the call has
\* lived through.
BeginSearch ==
    /\ last.op = "idle"
    /\ \E ps \in ConcurrentParticipants, d \in ConcurrentDurations :
         \E gen \in {_generate_time_slots(T(4, 0, 0), T(5, 0, 0), d,
                                          DefaultPreferences)} :
            /\ ~gen.raised
            /\ last' = [op               |-> "find_optimal_slots_running",
                        participants     |-> ps,
                        duration_minutes |-> d,
                        potential_slots  |-> gen.slots,
                        i                |-> 1,
                        j                |-> 1,
                        acc              |-> ScoreStart,
                        scored_slots     |-> <<>>,
                        snapshots        |-> {meetings}]
    /\ UNCHANGED <<meetings, created>>

\* one iteration of the participant loop of the running _score_time_slot
\* call: one detect_conflicts call, which reads the repository in a session
\* of its own (database.py get_session); behind the last participant the
\* slot is scored and, when viable, appended
ScoreNextParticipant ==
    /\ last.op = "find_optimal_slots_running"
    /\ last.i <= Len(last.potential_slots)
    /\ LET slot == last.potential_slots[last.i]
           acc  == ScoreParticipant(last.acc, slot,
                                    last.participants[last.j])
       IN  IF last.j < Len(last.participants)
           THEN last' = [last EXCEPT !.acc = acc, !.j = @ + 1]
           ELSE \E score_info \in {ScoreAfterParticipants(
                                       acc, slot, last.participants)} :
                  last' = [last EXCEPT
                             !.acc = ScoreStart,
                             !.j = 1,
                             !.i = @ + 1,
                             !.scored_slots =
                                 IF IsViable(score_info)
                                 THEN Append(@, OptimalSlotResponse(
                                                    slot, score_info))
                                 ELSE @]
    /\ UNCHANGED <<meetings, created>>

\* MeetingService.create_meeting by another client while the search runs
ConcurrentCreateMeeting ==
    /\ last.op = "find_optimal_slots_running"
    /\ created < MaxMeetings
    /\ \E s \in MeetingStarts, d \in MeetingDurations,
          o \in Users, ps \in MeetingParticipants :
          meetings' = meetings \cup
              {[id               |-> created + 1,
                start_time       |-> s,
                end_time         |-> s + d,
                duration_minutes |-> d,
                organizer_id     |-> o,
                participants     |-> ps]}
    /\ created' = created + 1
    /\ last' = [last EXCEPT !.snapshots = @ \cup {meetings'}]

\* MeetingService.delete_meeting by another client while the search runs
ConcurrentDeleteMeeting ==
    /\ last.op = "find_optimal_slots_running"
    /\ \E m \in meetings : meetings' = meetings \ {m}
    /\ last' = [last EXCEPT !.snapshots = @ \cup {meetings'}]
    /\ UNCHANGED created

\* the end of find_optimal_slots: sort and return the first ten
FinishSearch ==
    /\ last.op = "find_optimal_slots_running"
    /\ last.i > Len(last.potential_slots)
    /\ last' = [op               |-> "find_optimal_slots_concurrent",
                participants     |-> last.participants,
                duration_minutes |-> last.duration_minutes,
                result           |-> RankAndTruncate(last.scored_slots),
                snapshots        |-> last.snapshots]
    /\ UNCHANGED <<meetings, created>>

\* a search interleaved with the writes of other clients
NextConcurrent ==
    \/ CreateMeeting
    \/ DeleteMeeting
    \/ BeginSearch
    \/ ScoreNextParticipant
    \/ ConcurrentCreateMeeting
    \/ ConcurrentDeleteMeeting
    \/ FinishSearch
    \/ Return

SpecConcurrent == Init /\ [][NextConcurrent]_vars

\* the selection of alternatives exercised on the lists the search returns
NextAlternatives ==
    \/ CreateMeeting
    \/ DeleteMeeting
    \/ SuggestMeetingAlternatives
    \/ SelectFromSearch
    \/ Return

SpecAlternatives == Init /\ [][NextAlternatives]_vars

----------------------------------------------------------------------------
(* Properties of the conflict detector *)

Kinds(conflicts) == [j \in 1..Len(conflicts) |-> conflicts[j].conflict_type]

\* distance between two ranges that do not intersect
GapBetween(rangeStart, rangeEnd, meetingStart, meetingEnd) ==
    IF meetingEnd <= rangeStart THEN rangeStart - meetingEnd
    ELSE meetingStart - rangeEnd

\* the relation of a range to a meeting, in the stated precedence
ExpectedKind(rangeStart, rangeEnd, m) ==
    IF rangeStart < m.end_time /\ m.start_time < rangeEnd THEN "overlap"
    ELSE IF rangeEnd = m.start_time \/ m.end_time = rangeStart
    THEN "back_to_back"
    ELSE IF GapBetween(rangeStart, rangeEnd, m.start_time, m.end_time) < 15
    THEN "buffer_violation"
    ELSE "free"

IsDetect == last.op = "detect_conflicts"

OneShortMeetingFetched ==
    /\ IsDetect
    /\ Len(last.fetched) = 1
    /\ last.fetched[1].start_time = T(4, 9, 0)
    /\ last.fetched[1].end_time = T(4, 9, 30)

QueriedRange(s, e) == last.start_time = s /\ last.end_time = e

\* C1: detect_conflicts gives every fetched meeting the first kind that
\* matches in the order overlap, back_to_back, buffer_violation (gap
\* strictly below 15 minutes) and emits exactly one record for it, or no
\* record when none matches; every record belongs to a fetched meeting.
\* With the single meeting 09:00-09:30 the ranges 09:15-09:45, 09:30-10:00,
\* 09:35-10:05 and 10:00-10:30 give one overlap, one back_to_back, one
\* buffer_violation and the empty list.
C1_FirstMatchClassification ==
    IsDetect =>
      /\ \A i \in 1..Len(last.fetched) :
           LET k    == ExpectedKind(last.start_time, last.end_time,
                                    last.fetched[i])
               mine == {j \in 1..Len(last.conflicts) :
                          last.conflicts[j].meeting_id = last.fetched[i].id}
           IN  IF k = "free" THEN mine = {}
               ELSE /\ Cardinality(mine) = 1
                    /\ \A j \in mine : last.conflicts[j].conflict_type = k
      /\ \A j \in 1..Len(last.conflicts) :
           \E i \in 1..Len(last.fetched) :
              last.conflicts[j].meeting_id = last.fetched[i].id
      /\ (OneShortMeetingFetched /\ QueriedRange(T(4, 9, 15), T(4, 9, 45)))
            => Kinds(last.conflicts) = <<"overlap">>
      /\ (OneShortMeetingFetched /\ QueriedRange(T(4, 9, 30), T(4, 10, 0)))
            => Kinds(last.conflicts) = <<"back_to_back">>
      /\ (OneShortMeetingFetched /\ QueriedRange(T(4, 9, 35), T(4, 10, 5)))
            => Kinds(last.conflicts) = <<"buffer_violation">>
      /\ (OneShortMeetingFetched /\ QueriedRange(T(4, 10, 0), T(4, 10, 30)))
            => last.conflicts = <<>>

\* a query 5 minutes behind the only meeting gave one buffer_violation
C1_Witness ==
    /\ OneShortMeetingFetched
    /\ QueriedRange(T(4, 9, 35), T(4, 10, 5))
    /\ Kinds(last.conflicts) = <<"buffer_violation">>

IsMeetingOf(user_id, m) ==
    m.organizer_id = user_id \/ user_id \in RangeOf(m.participants)

\* C2: every stored meeting of the person that overlaps the queried range,
\* touches it or lies within the 15-minute buffer of it has a record in the
\* list detect_conflicts returns, also a meeting that started more than two
\* hours before the range.
C2_DetectionComplete ==
    IsDetect =>
      \A m \in meetings :
         (/\ IsMeetingOf(last.user_id, m)
          /\ ExpectedKind(last.start_time, last.end_time, m) # "free")
         => \E j \in 1..Len(last.conflicts) :
               last.conflicts[j].meeting_id = m.id

----------------------------------------------------------------------------
(* Properties of the selector *)

IsFind == last.op = "find_optimal_slots"

Returned == IsFind /\ ~last.raised

\* the score the scorer gives the i-th generated candidate of the last search
CandidateScore(i) ==
    _score_time_slot(last.potential_slots[i], last.participants).score

ViableCandidates ==
    {i \in 1..Len(last.potential_slots) : CandidateScore(i) > 0}

\* position of a returned slot in the generated list
GenerationIndex(r) ==
    CHOOSE i \in 1..Len(last.potential_slots) :
        last.potential_slots[i].start_time = r.start_time

\* C3: every slot find_optimal_slots returns has a score above 0.
C3_ReturnedScoresPositive ==
    Returned => \A i \in 1..Len(last.result) : last.result[i].score > 0

\* a search returned slots after discarding a candidate that scored 0
C3_Witness ==
    /\ Returned
    /\ Len(last.result) > 0
    /\ \E i \in 1..Len(last.potential_slots) : CandidateScore(i) = 0

\* C4: the returned list is in non-increasing order of score, and returned
\* slots of equal score are in the order the generator emitted them.
C4_SortedStable ==
    Returned =>
      \A i, j \in 1..Len(last.result) :
         i < j =>
           /\ last.result[i].score >= last.result[j].score
           /\ last.result[i].score = last.result[j].score
                => GenerationIndex(last.result[i])
                     < GenerationIndex(last.result[j])

\* a returned list with a tie, and in which ranking moved a later-generated
\* slot in front of an earlier one
C4_Witness ==
    /\ Returned
    /\ \E i, j \in 1..Len(last.result) :
          i < j /\ last.result[i].score = last.result[j].score
    /\ \E i, j \in 1..Len(last.result) :
          /\ i < j
          /\ GenerationIndex(last.result[i]) > GenerationIndex(last.result[j])

\* C5: a search that returns, returns min(10, number of candidates scoring
\* above 0) entries; no viable candidate left out scores higher than a
\* returned one; with no candidate above 0 the list is empty.
C5_TopTen ==
    Returned =>
      /\ Len(last.result) = Min(10, Cardinality(ViableCandidates))
      /\ \A c \in ViableCandidates :
           (\A k \in 1..Len(last.result) :
               last.result[k].start_time # last.potential_slots[c].start_time)
           => \A k \in 1..Len(last.result) :
                 CandidateScore(c) <= last.result[k].score
      /\ ViableCandidates = {} => last.result = <<>>

\* more than ten viable candidates, ten returned, and one of the first ten
\* generated is left out
C5_Witness ==
    /\ Returned
    /\ Cardinality(ViableCandidates) > 10
    /\ Len(last.result) = 10
    /\ \E c \in ViableCandidates :
          /\ c <= 10
          /\ \A k \in 1..Len(last.result) :
               last.result[k].start_time # last.potential_slots[c].start_time

\* C10: every search with a valid window, duration and participant list
\* returns a list; none is left by an exception.
C10_SearchReturns ==
    (/\ IsFind
     /\ last.date_range_start < last.date_range_end
     /\ last.duration_minutes >= 1 /\ last.duration_minutes <= 480
     /\ Len(last.participants) > 0)
    => ~last.raised

----------------------------------------------------------------------------
(* Properties of the scorer *)

IsScore == last.op = "_score_time_slot"

\* number of conflict records of one participant for a range: the meetings
\* of the participant that start within two hours around the range and are
\* not free of it
ConflictCount(user_id, slot) ==
    Cardinality({m \in meetings :
        /\ IsMeetingOf(user_id, m)
        /\ m.start_time >= slot.start_time - 120
        /\ m.start_time <= slot.end_time + 120
        /\ ExpectedKind(slot.start_time, slot.end_time, m) # "free"})

RECURSIVE TotalConflicts(_, _, _)
TotalConflicts(participants, slot, i) ==
    IF i > Len(participants) THEN 0
    ELSE ConflictCount(participants[i], slot)
         + TotalConflicts(participants, slot, i + 1)

TimeOfDayAdjustment(h) ==
    IF h \in 9..11 THEN 15
    ELSE IF h \in 13..14 THEN 0 - 10
    ELSE IF h \in 16..17 THEN 0 - 5
    ELSE IF h < 8 \/ h > 18 THEN 0 - 25
    ELSE 0

WeekdayAdjustment(d) == IF d = 0 THEN 5 ELSE IF d = 4 THEN 0 - 5 ELSE 0

ExpectedScore(slot, participants) ==
    LET raw == 100
               - 30 * TotalConflicts(participants, slot, 1)
               + (IF \A i \in 1..Len(participants) :
                        ConflictCount(participants[i], slot) = 0
                  THEN 20 ELSE 0)
               + TimeOfDayAdjustment(hour(slot.start_time))
               + WeekdayAdjustment(weekday(slot.start_time))
               - (IF hour(slot.end_time) - hour(slot.start_time) >= 2
                  THEN 10 ELSE 0)
    IN  IF raw > 0 THEN raw ELSE 0

MondayNineHalfHour(slot) ==
    slot.start_time = T(0, 9, 0) /\ slot.end_time = T(0, 9, 30)

\* C6: the score of a slot is the floor at 0 of 100, minus 30 per conflict
\* record of every participant, plus 20 when no participant has a conflict,
\* plus the time-of-day and weekday adjustments, minus 10 when end hour minus
\* start hour is at least 2; a 30-minute slot on Monday 09:00 with one
\* participant without meetings scores 140.
C6_ScoreFormula ==
    IsScore =>
      /\ last.score_info.score = ExpectedScore(last.slot, last.participants)
      /\ ((/\ MondayNineHalfHour(last.slot)
           /\ Len(last.participants) = 1
           /\ \A m \in meetings : ~IsMeetingOf(last.participants[1], m))
          => last.score_info.score = 140)

\* the Monday 09:00 half hour scored 140 for one participant without meetings
C6_Witness ==
    /\ IsScore
    /\ MondayNineHalfHour(last.slot)
    /\ Len(last.participants) = 1
    /\ \A m \in meetings : ~IsMeetingOf(last.participants[1], m)
    /\ last.score_info.score = 140

\* C7: every score the scorer computes and every score of a returned slot
\* lies between 0 and 100.
C7_ScoreWithinHundred ==
    /\ IsScore => (last.score_info.score >= 0 /\ last.score_info.score <= 100)
    /\ Returned => \A i \in 1..Len(last.result) :
                      last.result[i].score >= 0 /\ last.result[i].score <= 100

\* C8: the scorer never returns a negative score.
C8_ScoreNotNegative ==
    IsScore => last.score_info.score >= 0

\* a slot whose penalties exceed its bonuses was scored 0
C8_Witness ==
    /\ IsScore
    /\ TotalConflicts(last.participants, last.slot, 1) >= 4
    /\ last.score_info.score = 0

----------------------------------------------------------------------------
(* Properties of the generator *)

IsGenerate == last.op = "_generate_time_slots"

\* the list the generator built in the last call of it, direct or through
\* find_optimal_slots
GeneratedSlots ==
    IF IsGenerate THEN last.slots
    ELSE IF IsFind THEN last.potential_slots
    ELSE <<>>

\* C9: no generated slot starts on a Saturday or Sunday, and none ends after
\* the preferred end time (17:00) of the day it starts on.
C9_WorkingDaysAndHours ==
    \A i \in 1..Len(GeneratedSlots) :
       /\ weekday(GeneratedSlots[i].start_time) \notin {5, 6}
       /\ GeneratedSlots[i].end_time
            <= at(GeneratedSlots[i].start_time, 17, 0)

\* a generation that returned slots, the last of them ending at 17:00
C9_Witness ==
    /\ IsGenerate
    /\ ~last.raised
    /\ Len(last.slots) > 0
    /\ \E i \in 1..Len(last.slots) :
          last.slots[i].end_time = at(last.slots[i].start_time, 17, 0)

----------------------------------------------------------------------------
(* Properties of the alternatives *)

IsSuggest == last.op = "suggest_meeting_alternatives"

IsSelect == last.op = "select_alternatives"

\* a slot and the original proposed range have a common instant
IntersectsOriginal(r) ==
    /\ r.start_time < last.original_start + last.duration_minutes
    /\ last.original_start < r.end_time

RECURSIVE WithoutOriginal(_, _)
WithoutOriginal(alternatives, i) ==
    IF i > Len(alternatives) THEN <<>>
    ELSE (IF IntersectsOriginal(alternatives[i]) THEN <<>>
          ELSE <<alternatives[i]>>)
         \o WithoutOriginal(alternatives, i + 1)

\* C12: suggest_meeting_alternatives returns the first (at most 5) elements
\* of the 7-day search result without the slots intersecting the original
\* range; the result has at most 5 entries in non-increasing order of score.
C12_FirstFiveOfSearch ==
    IsSuggest =>
      /\ ~last.raised
      /\ LET kept == WithoutOriginal(last.alternatives, 1)
         IN  last.result = SubSeq(kept, 1, Min(5, Len(kept)))
      /\ Len(last.result) <= 5
      /\ \A i, j \in 1..Len(last.result) :
            i < j => last.result[i].score >= last.result[j].score

----------------------------------------------------------------------------
(* Properties of the density *)

IsDensity == last.op = "get_meeting_density"

DensityIs(c) == last.density.density_score.num = c * last.density.density_score.den

\* C13: a day with exactly 240 minutes of meetings has density 50 and the
\* 'moderate' recommendation; 120 minutes give 25 and 'light', 360 minutes
\* give 75 and 'heavy'.
C13_BoundaryInLowerBucket ==
    IsDensity =>
      /\ last.density.total_meeting_time = 240
           => /\ DensityIs(50)
              /\ last.density.recommendation
                   = "Moderate meeting load - schedule with care"
      /\ last.density.total_meeting_time = 120
           => /\ DensityIs(25)
              /\ last.density.recommendation
                   = "Light meeting day - good for scheduling"
      /\ last.density.total_meeting_time = 360
           => /\ DensityIs(75)
              /\ last.density.recommendation
                   = "Heavy meeting day - avoid non-essential meetings"

----------------------------------------------------------------------------
(* Relations between calls *)

IsTwice == last.op = "detect_conflicts_twice"

\* C14: two calls of detect_conflicts with the same arguments against an
\* unchanged repository return the same list, in the same order.
C14_DetectIdempotent ==
    IsTwice => last.first = last.second

----------------------------------------------------------------------------
(* Properties of the range predicates *)

IsPredicates == last.op = "predicates"

ProperRange(r) == r[1] < r[2]

\* C15: the overlap predicate gives the same answer for (A, B) and (B, A)
\* for all ranges; the back-to-back and buffer predicates do so for ranges
\* with start < end.
C15_PredicatesSymmetric ==
    IsPredicates =>
      /\ last.overlap_ab = last.overlap_ba
      /\ (ProperRange(last.a) /\ ProperRange(last.b))
           => /\ last.back_ab = last.back_ba
              /\ last.buffer_ab = last.buffer_ba

\* a range that starts less than 15 minutes behind the end of the other:
\* the buffer is violated whichever range is named first
C15_Witness ==
    /\ IsPredicates
    /\ ProperRange(last.a) /\ ProperRange(last.b)
    /\ last.b[2] < last.a[1]
    /\ last.buffer_ab /\ last.buffer_ba
    /\ ~last.overlap_ab /\ ~last.back_ab

----------------------------------------------------------------------------
(* Frame of the engine *)

EngineOps ==
    {"detect_conflicts", "detect_conflicts_twice", "find_optimal_slots",
     "get_meeting_density", "suggest_meeting_alternatives",
     "_generate_time_slots", "_score_time_slot"}

\* C16: a call of an engine operation leaves the stored meetings, and every
\* field of each, as they were, and starts from an engine that holds nothing
\* of an earlier call.
C16_EngineReadsOnly ==
    [][(last' # last /\ last'.op \in EngineOps)
         => (meetings' = meetings /\ created' = created /\ last = Idle)]_vars

\* a search returned over a repository holding a meeting it had to read
C16_Witness ==
    /\ IsFind
    /\ ~last.raised
    /\ meetings # {}
    /\ \E i \in 1..Len(last.result) :
          Len(last.result[i].participants_conflicts) > 0

\* C17: called without participants or with a duration outside [1, 480],
\* find_optimal_slots does not raise and returns the empty list.
C17_UnvalidatedDegenerate ==
    (/\ IsFind
     /\ \/ Len(last.participants) = 0
        \/ last.duration_minutes < 1
        \/ last.duration_minutes > 480)
    => (~last.raised /\ last.result = <<>>)

----------------------------------------------------------------------------
(* Properties of the tool layer *)

IsToolFind == last.op = "tool_find_optimal_slots"

IsToolDetect == last.op = "tool_detect_scheduling_conflicts"

IsSlotsErrorValue(value) ==
    /\ Len(value) = 1
    /\ value[1].score = 0
    /\ value[1].reasoning[1] = "Error"

IsConflictsErrorValue(value) ==
    /\ Len(value) = 1
    /\ value[1].conflict_type = "system_error"

\* C18: no exception leaves the tools find_optimal_slots and
\* detect_scheduling_conflicts of main.py; when an exception was raised
\* inside (unparsable timestamp, engine, repository) the value is the error
\* value (one record with score 0 and reasoning 'Error: ...', respectively
\* conflict_type 'system_error'), otherwise it is a list of results none of
\* which looks like the error record.
C18_ToolsNeverRaise ==
    /\ IsToolFind =>
         /\ last.escaped = "none"
         /\ last.exc # "none" => IsSlotsErrorValue(last.value)
         /\ last.exc = "none" =>
              \A i \in 1..Len(last.value) :
                 /\ last.value[i].score > 0
                 /\ last.value[i].reasoning[1] # "Error"
    /\ IsToolDetect =>
         /\ last.escaped = "none"
         /\ last.exc # "none" => IsConflictsErrorValue(last.value)
         /\ last.exc = "none" =>
              \A i \in 1..Len(last.value) :
                 last.value[i].conflict_type
                    \in {"overlap", "back_to_back", "buffer_violation"}

\* the tool returned the error record after the generator raised inside it
C18_Witness ==
    /\ IsToolFind
    /\ last.exc = "TypeError"
    /\ last.escaped = "none"
    /\ IsSlotsErrorValue(last.value)

----------------------------------------------------------------------------
(* Properties of the generator over its window *)

\* the number of the calendar day of an instant
DayOf(t) == t \div MinutesPerDay

\* the slots claimed for the calendar day D: one slot at 09:00 + 30k for
\* every k >= 0 with 09:00 + 30k + duration <= 17:00
ClaimedDaySlots(D, duration_minutes) ==
    LET n == IF duration_minutes > 480 THEN 0
             ELSE ((480 - duration_minutes) \div 30) + 1
    IN  [k \in 1..n |->
           TimeSlot(T(D, 9, 0) + 30 * (k - 1),
                    T(D, 9, 0) + 30 * (k - 1) + duration_minutes)]

\* the slots claimed for the days D..lastDay, Monday to Friday days only
RECURSIVE ClaimedSlots(_, _, _)
ClaimedSlots(D, lastDay, duration_minutes) ==
    IF D > lastDay THEN <<>>
    ELSE (IF D % 7 < 5 THEN ClaimedDaySlots(D, duration_minutes) ELSE <<>>)
         \o ClaimedSlots(D + 1, lastDay, duration_minutes)

\* C19: a call of the generator returns, for every Monday-to-Friday day that
\* intersects [windowStart, windowEnd) and every k >= 0 with
\* 09:00 + 30k + duration <= 17:00, exactly one slot starting at 09:00 + 30k
\* of that day, and nothing else; windows over several consecutive weekdays
\* and over a weekend included.
C19_GeneratorComplete ==
    IsGenerate =>
       /\ ~last.raised
       /\ last.slots = ClaimedSlots(DayOf(last.start_date),
                                    DayOf(last.end_date - 1),
                                    last.duration_minutes)

\* C20: every slot the generator emits starts inside the requested window:
\* windowStart <= slot.start < windowEnd.
C20_SlotsInsideWindow ==
    IsGenerate =>
       \A i \in 1..Len(last.slots) :
          /\ last.start_date <= last.slots[i].start_time
          /\ last.slots[i].start_time < last.end_date

----------------------------------------------------------------------------
(* Order and content of the generated list *)

\* C21: the list the generator builds is strictly ascending by start time
\* (hence days in calendar order, the 30-minute steps of a day in order, and
\* no slot twice), and every slot in it is unscored: score 0, no available
\* and no conflicted participant.
C21_AscendingUnscored ==
    /\ \A i, j \in 1..Len(GeneratedSlots) :
          i < j => /\ GeneratedSlots[i].start_time < GeneratedSlots[j].start_time
                   /\ GeneratedSlots[i] # GeneratedSlots[j]
    /\ IsGenerate =>
          \A i \in 1..Len(last.slots) :
             /\ last.slots[i].score = 0
             /\ last.slots[i].available_participants = <<>>
             /\ last.slots[i].conflicted_participants = <<>>

\* a generation that returned the sixteen half-hour slots of a Friday
C21_Witness ==
    /\ IsGenerate
    /\ ~last.raised
    /\ last.duration_minutes = 30
    /\ Len(last.slots) = 16
    /\ last.slots[1].start_time = T(4, 9, 0)
    /\ last.slots[16].start_time = T(4, 16, 30)

----------------------------------------------------------------------------
(* Properties of the participant loop of the scorer *)

\* the entries of a participant list with, respectively without, a conflict
\* record for the slot, in the order of the list
EntriesWithConflict(participants, slot) ==
    LET Test(p) == ConflictCount(p, slot) > 0
    IN  SelectSeq(participants, Test)

EntriesWithoutConflict(participants, slot) ==
    LET Test(p) == ConflictCount(p, slot) = 0
    IN  SelectSeq(participants, Test)

TotalConflictedEntries(participants, slot) ==
    Len(EntriesWithConflict(participants, slot))

HasAllAvailableNote(reasoning) ==
    \E i \in 1..Len(reasoning) : reasoning[i] = <<"All participants available">>

\* C22: the scorer records every entry of the participant list in exactly
\* one of 'available' (no conflict record for the slot) and 'conflicted' (at
\* least one), so the two lists together are as long as the participant
\* list, and the 'All participants available' bonus is given exactly when
\* 'conflicted' is empty.
C22_ParticipantsPartitioned ==
    IsScore =>
      /\ last.score_info.available
            = EntriesWithoutConflict(last.participants, last.slot)
      /\ last.score_info.conflicted
            = EntriesWithConflict(last.participants, last.slot)
      /\ Len(last.score_info.available) + Len(last.score_info.conflicted)
            = Len(last.participants)
      /\ HasAllAvailableNote(last.score_info.reasoning)
            <=> (last.score_info.conflicted = <<>>)

\* two participants scored, the first conflicted and the second available
C22_Witness ==
    /\ IsScore
    /\ last.participants = <<"u1", "u2">>
    /\ last.score_info.conflicted = <<"u1">>
    /\ last.score_info.available = <<"u2">>
    /\ ~HasAllAvailableNote(last.score_info.reasoning)

----------------------------------------------------------------------------
(* Properties of the reasoning *)

\* The reasoning of a slot is kept as the list of the descriptions that
\* '; '.join puts together; no description contains the separator, so the
\* string and the list determine each other.

\* the conflict notes of the participants from position i on, in list order
RECURSIVE ConflictNotes(_, _, _)
ConflictNotes(participants, slot, i) ==
    IF i > Len(participants) THEN <<>>
    ELSE (IF ConflictCount(participants[i], slot) > 0
          THEN <<<<"Conflicts for", participants[i],
                   ConflictCount(participants[i], slot)>>>>
          ELSE <<>>)
         \o ConflictNotes(participants, slot, i + 1)

TimeOfDayNote(h) ==
    IF h \in 9..11 THEN <<<<"Good morning time">>>>
    ELSE IF h \in 13..14 THEN <<<<"Lunch time penalty">>>>
    ELSE IF h \in 16..17 THEN <<<<"Late afternoon">>>>
    ELSE IF h < 8 \/ h > 18 THEN <<<<"Outside normal hours">>>>
    ELSE <<>>

WeekdayNote(d) ==
    IF d = 0 THEN <<<<"Monday energy">>>>
    ELSE IF d = 4 THEN <<<<"Friday afternoon">>>>
    ELSE <<>>

\* the descriptions of the rules that fire for a slot, in evaluation order
FiredRules(slot, participants) ==
    ConflictNotes(participants, slot, 1)
    \o (IF TotalConflictedEntries(participants, slot) = 0
        THEN <<<<"All participants available">>>> ELSE <<>>)
    \o TimeOfDayNote(hour(slot.start_time))
    \o WeekdayNote(weekday(slot.start_time))
    \o (IF hour(slot.end_time) - hour(slot.start_time) >= 2
        THEN <<<<"Long meeting">>>> ELSE <<>>)

\* C23: the reasoning of a scored slot lists the descriptions of exactly the
\* rules that fired, in evaluation order: the conflict notes in participant
\* order, then all-available, then time of day, then weekday, then long
\* meeting; it is the literal 'Standard slot' when no rule fired.
C23_ReasoningInRuleOrder ==
    IsScore =>
       last.score_info.reasoning
          = (IF FiredRules(last.slot, last.participants) = <<>>
             THEN <<<<"Standard slot">>>>
             ELSE FiredRules(last.slot, last.participants))

\* a slot with a conflict note, a time-of-day note, a weekday note and the
\* long-meeting note, in that order
C23_Witness ==
    /\ IsScore
    /\ Len(last.score_info.reasoning) = 4
    /\ last.score_info.reasoning[1][1] = "Conflicts for"
    /\ last.score_info.reasoning[2] = <<"Good morning time">>
    /\ last.score_info.reasoning[3] = <<"Friday afternoon">>
    /\ last.score_info.reasoning[4] = <<"Long meeting">>

----------------------------------------------------------------------------
(* Properties of the density figures *)

\* the stored meetings of a user that start on the calendar day of date
MeetingsOnDay(user_id, date) ==
    {m \in meetings : IsMeetingOf(user_id, m)
                      /\ DayOf(m.start_time) = DayOf(date)}

RECURSIVE MinutesOf(_)
MinutesOf(S) ==
    IF S = {} THEN 0
    ELSE LET m == CHOOSE x \in S : TRUE
         IN  m.duration_minutes + MinutesOf(S \ {m})

\* C24: get_meeting_density reports the number of the user's meetings that
\* start on the date, the sum of their durations, 480 minus that sum as free
\* time and sum / 480 * 100 as density; a day without meetings gives 0, 0,
\* 480 and 0; meeting time and free time always add up to 480.
C24_DensityFigures ==
    IsDensity =>
       LET onDay == MeetingsOnDay(last.user_id, last.date)
           d     == last.density
       IN  /\ d.total_meetings = Cardinality(onDay)
           /\ d.total_meeting_time = MinutesOf(onDay)
           /\ d.free_time = 480 - MinutesOf(onDay)
           /\ d.density_score.num * 480
                 = MinutesOf(onDay) * 100 * d.density_score.den
           /\ d.total_meeting_time + d.free_time = 480
           /\ onDay = {} => /\ d.total_meetings = 0
                            /\ d.total_meeting_time = 0
                            /\ d.free_time = 480
                            /\ d.density_score.num = 0

\* the density of the Friday for a user with a meeting on the Friday and a
\* meeting that starts at 00:00 of the Saturday
C24_Witness ==
    /\ IsDensity
    /\ DayOf(last.date) = 4
    /\ last.density.total_meetings = 1
    /\ \E m \in meetings : /\ IsMeetingOf(last.user_id, m)
                           /\ m.start_time = T(5, 0, 0)

\* C28: in every density result the free time is not negative and the
\* density lies between 0 and 100.
C28_DensityIsFraction ==
    IsDensity =>
       /\ last.density.free_time >= 0
       /\ last.density.density_score.num >= 0
       /\ last.density.density_score.num <= 100 * last.density.density_score.den

----------------------------------------------------------------------------
(* Relations between scorings *)

IsBothOrders == last.op = "_score_time_slot_orders"

IsAroundCreate == last.op = "_score_time_slot_around_create"

\* C25: scoring a slot for a participant list and for a permutation of it,
\* against the same repository, gives the same score, the same set of
\* available and the same set of conflicted participants.
C25_OrderIndependent ==
    IsBothOrders =>
       /\ last.first.score = last.second.score
       /\ RangeOf(last.first.available) = RangeOf(last.second.available)
       /\ RangeOf(last.first.conflicted) = RangeOf(last.second.conflicted)

\* both participants conflicted with different numbers of conflict records,
\* listed in the two orders
C25_Witness ==
    /\ IsBothOrders
    /\ last.first.conflicted = <<"u1", "u2">>
    /\ last.second.conflicted = <<"u2", "u1">>
    /\ ConflictCount("u1", last.slot) # ConflictCount("u2", last.slot)
    /\ last.first.score > 0

\* C29: storing one more meeting never raises the score of a slot for a
\* participant list and never turns a conflicted participant into an
\* available one.
C29_MonotoneInMeetings ==
    IsAroundCreate =>
       /\ last.after.score <= last.before.score
       /\ RangeOf(last.before.conflicted) \subseteq RangeOf(last.after.conflicted)
       /\ RangeOf(last.after.available) \subseteq RangeOf(last.before.available)

\* the added meeting made an available participant conflicted and lowered a
\* score that already counted a conflict
C29_Witness ==
    /\ IsAroundCreate
    /\ last.before.conflicted = <<"u1">>
    /\ last.before.available = <<"u2">>
    /\ last.after.conflicted = <<"u1", "u2">>
    /\ last.after.score < last.before.score
    /\ last.after.score > 0

HasAvailabilityNote(reasoning) ==
    \E i \in 1..Len(reasoning) :
       \/ reasoning[i] = <<"All participants available">>
       \/ reasoning[i][1] = "Conflicts for"

\* C30: the reasoning of a scored slot always holds a conflict note or the
\* all-available note, for every slot and every participant list, the empty
\* one included; it is never empty and never 'Standard slot'.
C30_StandardSlotUnreachable ==
    /\ IsScore =>
         /\ last.score_info.reasoning # <<>>
         /\ last.score_info.reasoning # <<<<"Standard slot">>>>
         /\ HasAvailabilityNote(last.score_info.reasoning)
    /\ Returned =>
         \A i \in 1..Len(last.result) :
            /\ last.result[i].reasoning # <<<<"Standard slot">>>>
            /\ HasAvailabilityNote(last.result[i].reasoning)

\* a short Wednesday noon slot scored for the empty participant list: the
\* all-available note is the only one
C30_Witness ==
    /\ IsScore
    /\ last.participants = <<>>
    /\ last.slot.start_time = T(2, 12, 0)
    /\ last.score_info.reasoning = <<<<"All participants available">>>>

----------------------------------------------------------------------------
(* Feasibility of the returned slots *)

\* a stored meeting of the user overlaps the slot
HasOverlap(user_id, slot) ==
    \E m \in meetings : /\ IsMeetingOf(user_id, m)
                        /\ slot.start_time < m.end_time
                        /\ m.start_time < slot.end_time

\* C26: no slot that find_optimal_slots returns overlaps a stored meeting of
\* one of the participants.
C26_ReturnedSlotsFree ==
    Returned =>
       \A i \in 1..Len(last.result) :
          \A k \in 1..Len(last.participants) :
             ~HasOverlap(last.participants[k], last.result[i])

----------------------------------------------------------------------------
(* The search under concurrent writes *)

IsConcurrentFind == last.op = "find_optimal_slots_concurrent"

\* the detector reports a conflict for the user and the slot when the
\* repository holds the meetings S
ConflictedIn(S, user_id, slot) ==
    \E m \in S :
       /\ IsMeetingOf(user_id, m)
       /\ m.start_time >= slot.start_time - 120
       /\ m.start_time <= slot.end_time + 120
       /\ ExpectedKind(slot.start_time, slot.end_time, m) # "free"

\* C27: the available/conflicted classification of all slots a search
\* returns is that of one repository state the call lived through (the state
\* before or after each concurrent write), the same state for every slot and
\* every participant.
C27_SingleSnapshot ==
    IsConcurrentFind =>
       \E S \in last.snapshots :
          \A i \in 1..Len(last.result) :
             \A k \in 1..Len(last.participants) :
                LET p == last.participants[k]
                IN  /\ (p \in RangeOf(last.result[i].participants_conflicts))
                          <=> ConflictedIn(S, p, last.result[i])
                    /\ (p \in RangeOf(last.result[i].participants_available))
                          <=> ~ConflictedIn(S, p, last.result[i])

====
